---- MODULE Spec2Model ----
(***************************************************************************)
(* The User Attribute packet codec of src/packet/user_attribute.rs:        *)
(* UserAttribute::from_slice (the nom parsers `parse` and `image`),        *)
(* Serialize::to_writer, packet_len, to_u8, packet_version and Display.    *)
(*                                                                         *)
(* A behaviour is one caller session.  Either the caller holds a slice of  *)
(* bytes and decodes it (mode "decode"), afterwards using the decoded      *)
(* value, or it holds a constructed value and encodes it (mode "encode"),  *)
(* afterwards decoding the bytes that were written.                        *)
(***************************************************************************)
EXTENDS Integers, Sequences, FiniteSets, TLC

VARIABLES
    mode,             \* "decode": the caller starts from bytes; "encode": from a value
    input,            \* the slice handed to from_slice
    pv,               \* the packet_version argument of from_slice
    overflow_checks,  \* build profile: TRUE = arithmetic overflow panics, FALSE = it wraps
    val,              \* the UserAttribute value the caller holds
    parsed,           \* outcome of from_slice(pv, input)
    out,              \* the writer after to_writer
    reparsed,         \* outcome of from_slice(pv, bytes written by to_writer)
    plen,             \* last result of packet_len()
    u8,               \* last result of to_u8()
    text              \* last result of Display::fmt

vars == <<mode, input, pv, overflow_checks, val, parsed, out, reparsed, plen, u8, text>>

---------------------------------------------------------------------------
(* Bounds of the explored inputs *)

MaxLen == 2      \* header and data byte strings are enumerated up to this length
MaxRaw == 4      \* unstructured input slices are enumerated up to this length

---------------------------------------------------------------------------
(* Widths of the integer types the parsers compute in *)

U16Modulus == 65536
UsizeMax == 2147483647   \* stands for usize::MAX: above the length of any slice

---------------------------------------------------------------------------
(* Values *)

Versions == {"Old", "New"}

Image(version, header, data) ==
    [variant |-> "Image", packet_version |-> version,
     header |-> header, data |-> data]

Unknown(version, typ, data) ==
    [variant |-> "Unknown", packet_version |-> version,
     typ |-> typ, data |-> data]

NoVal == [variant |-> "None"]

---------------------------------------------------------------------------
(* nom parser results: Ok((rest, o)), Err(Incomplete), Err(Error); a panic  *)
(* unwinds through every enclosing parser.                                 *)

Ok(r, o) == [kind |-> "ok", rest |-> r, o |-> o]
Incomplete == [kind |-> "incomplete"]
Failure == [kind |-> "error"]
Panic == [kind |-> "panic"]

be_u8(i) == IF Len(i) < 1 THEN Incomplete ELSE Ok(Tail(i), i[1])

le_u16(i) ==
    IF Len(i) < 2 THEN Incomplete
    ELSE Ok(SubSeq(i, 3, Len(i)), i[1] + 256 * i[2])

(* A big-endian u32.  Values of 2^31 and more are represented by UsizeMax: *)
(* a length is only ever compared with the length of a slice, and no      *)
(* slice is that long.                                                    *)
be_u32(i) ==
    IF Len(i) < 4 THEN Incomplete
    ELSE Ok(SubSeq(i, 5, Len(i)),
            IF i[1] >= 128 THEN UsizeMax
            ELSE ((i[1] * 256 + i[2]) * 256 + i[3]) * 256 + i[4])

take(i, n) ==
    IF Len(i) < n THEN Incomplete
    ELSE Ok(SubSeq(i, n + 1, Len(i)), SubSeq(i, 1, n))

rest(i) == Ok(<<>>, i)

(* a - b on u16 / usize: panics with overflow checks, wraps without *)
sub_u16(a, b) ==
    IF a >= b THEN Ok(<<>>, a - b)
    ELSE IF overflow_checks THEN Panic
    ELSE Ok(<<>>, a - b + U16Modulus)

sub_usize(a, b) ==
    IF a >= b THEN Ok(<<>>, a - b)
    ELSE IF overflow_checks THEN Panic
    ELSE Ok(<<>>, UsizeMax - (b - a) + 1)

---------------------------------------------------------------------------
(* util::packet_length and util::write_packet_len (new-format lengths) *)

packet_length(i) ==
    LET olen == be_u8(i) IN
    IF olen.kind # "ok" THEN olen
    ELSE IF olen.o < 192 THEN Ok(olen.rest, olen.o)
    ELSE IF olen.o < 224 THEN
        LET a == be_u8(olen.rest) IN
        IF a.kind # "ok" THEN a
        ELSE Ok(a.rest, (olen.o - 192) * 256 + a.o + 192)
    ELSE IF olen.o = 255 THEN be_u32(olen.rest)
    ELSE Failure

write_packet_len(len) ==
    IF len < 192 THEN <<len>>
    ELSE IF len < 8384 THEN
        <<((len - 192) \div 256) + 192, (len - 192) % 256>>
    ELSE <<255, (len \div 16777216) % 256, (len \div 65536) % 256,
           (len \div 256) % 256, len % 256>>

---------------------------------------------------------------------------
(* impl UserAttribute *)

(* to_u8 with the Image arm returning 0 instead of 1 *)
to_u8_ImageZero(v) == IF v.variant = "Image" THEN 0 ELSE v.typ

to_u8(v) == IF v.variant = "Image" THEN 1 ELSE v.typ

packet_version(v) == v.packet_version

packet_len(v) ==
    IF v.variant = "Image" THEN 1 + 16 + Len(v.data)
    ELSE 1 + Len(v.data)

fmt(v) ==
    IF v.variant = "Image"
    THEN [name |-> "User Attribute: Image", len |-> Len(v.data)]
    ELSE [name |-> "User Attribute: typ", typ |-> v.typ, len |-> Len(v.data)]

---------------------------------------------------------------------------
(* The parsers *)

(* image building its value with a fixed version instead of the argument *)
image_FixedVersion(i, version) ==
    LET header_len == le_u16(i) IN
    IF header_len.kind # "ok" THEN header_len ELSE
    LET count == sub_u16(header_len.o, 2) IN
    IF count.kind # "ok" THEN count ELSE
    LET header == take(header_len.rest, count.o) IN
    IF header.kind # "ok" THEN header ELSE
    LET img == rest(header.rest) IN
    Ok(img.rest, Image("New", header.o, img.o))

image(i, version) ==
    LET header_len == le_u16(i) IN
    IF header_len.kind # "ok" THEN header_len ELSE
    LET count == sub_u16(header_len.o, 2) IN
    IF count.kind # "ok" THEN count ELSE
    LET header == take(header_len.rest, count.o) IN
    IF header.kind # "ok" THEN header ELSE
    LET img == rest(header.rest) IN
    Ok(img.rest, Image(version, header.o, img.o))

parse(i, version) ==
    LET len == packet_length(i) IN
    IF len.kind # "ok" THEN len ELSE
    LET typ == be_u8(len.rest) IN
    IF typ.kind # "ok" THEN typ ELSE
    LET count == sub_usize(len.o, 1) IN
    IF count.kind # "ok" THEN count ELSE
    LET body == take(typ.rest, count.o) IN
    IF body.kind # "ok" THEN body ELSE
    LET attr == IF typ.o = 1
                THEN image(body.o, version)
                ELSE LET data == rest(body.o) IN
                     Ok(data.rest, Unknown(version, typ.o, data.o)) IN
    IF attr.kind # "ok" THEN attr ELSE
    Ok(body.rest, attr.o)

(* errors::Error built from a nom error by the `?` of from_slice *)
ErrorFrom(kind) ==
    IF kind = "incomplete" THEN "IncompleteInput" ELSE "InvalidStructure"

(* `rest` is the remaining input that from_slice binds to `_` and drops *)
from_slice(version, i) ==
    LET r == parse(i, version) IN
    IF r.kind = "ok" THEN [kind |-> "ok", value |-> r.o, rest |-> r.rest]
    ELSE IF r.kind = "panic" THEN [kind |-> "panic"]
    ELSE [kind |-> "err", err |-> ErrorFrom(r.kind)]

---------------------------------------------------------------------------
(* impl Serialize for UserAttribute *)

write_u16_le(n) == <<n % 256, n \div 256>>

(* the Unknown arm writing the data without the typ byte *)
write_body_NoTyp(v) ==
    IF v.variant = "Image"
    THEN <<1>> \o write_u16_le((Len(v.header) + 2) % U16Modulus)
              \o v.header \o v.data
    ELSE v.data

write_body(v) ==
    IF v.variant = "Image"
    THEN <<1>> \o write_u16_le((Len(v.header) + 2) % U16Modulus)
              \o v.header \o v.data
    ELSE <<v.typ>> \o v.data

to_writer(v) == write_packet_len(packet_len(v)) \o write_body(v)

---------------------------------------------------------------------------
(* The inputs of a session *)

SeqsUpTo(S, n) == UNION {[1..k -> S] : k \in 0..n}

Fill(n, b) == [k \in 1..n |-> b]

HeaderBytes == {170, 187}
DataBytes == {1, 204}
RawBytes == {0, 1, 2, 3}
TypVals == {0, 1, 2, 66, 255}

(* header lengths around 14, the header length of the common JPEG image  *)
(* attribute, whose encoded header-length field is 16                    *)
LongHeaderLens == {13, 14, 15}
(* data lengths at which the length prefix changes from one to two bytes *)
LongDataLens == {190, 191}

Headers ==
    SeqsUpTo(HeaderBytes, MaxLen) \cup {Fill(n, 170) : n \in LongHeaderLens}

Datas ==
    SeqsUpTo(DataBytes, MaxLen) \cup {Fill(n, 204) : n \in LongDataLens}

Values(version) ==
    {Image(version, h, d) : h \in Headers, d \in Datas}
    \cup {Unknown(version, t, d) : t \in TypVals, d \in Datas}

(* bodies of one attribute: the subtype byte and what follows it *)
UnknownBodies == {<<t>> \o d : t \in TypVals \ {1}, d \in Datas}

ImageBodies ==
    {<<1>> \o write_u16_le(Len(h) + 2) \o h \o d : h \in Headers, d \in Datas}

(* Image bodies whose header-length field is 0 or 1 *)
UnderflowBodies == {<<1, l, 0>> \o d : l \in {0, 1}, d \in Datas}

Bodies == UnknownBodies \cup ImageBodies \cup UnderflowBodies

Trailers == {<<>>, <<238>>}

(* a body behind its length prefix, possibly followed by further bytes *)
Framed == {write_packet_len(Len(b)) \o b \o t : b \in Bodies, t \in Trailers}

ScenarioA == <<1, 4, 0, 170, 187, 204, 221, 238>>
ScenarioB == <<66, 1, 2, 3>>
Scenarios == {ScenarioA, ScenarioB, <<8>> \o ScenarioA, <<4>> \o ScenarioB}

Inputs == SeqsUpTo(RawBytes, MaxRaw) \cup Framed \cup Bodies \cup Scenarios

---------------------------------------------------------------------------
(* The session *)

NotCalled == [kind |-> "none"]

Init ==
    /\ \/ overflow_checks = TRUE     \* the dev profile
       \/ overflow_checks = FALSE    \* the release profile
    /\ pv \in Versions
    /\ \/ /\ mode = "decode"
          /\ input \in Inputs
          /\ val = NoVal
       \/ /\ mode = "encode"
          /\ input = <<>>
          /\ val \in Values(pv)
    /\ parsed = NotCalled
    /\ out = NotCalled
    /\ reparsed = NotCalled
    /\ plen = NotCalled
    /\ u8 = NotCalled
    /\ text = NotCalled

(* let pk = UserAttribute::from_slice(pv, input) *)
FromSlice ==
    /\ mode = "decode"
    /\ parsed' = from_slice(pv, input)
    /\ val' = IF parsed'.kind = "ok" THEN parsed'.value ELSE val
    /\ UNCHANGED <<mode, input, pv, overflow_checks, out, reparsed, plen, u8, text>>

(* val.to_writer(&mut writer) on a fresh Vec<u8> *)
ToWriter ==
    /\ val # NoVal
    /\ out' = [kind |-> "ok", bytes |-> to_writer(val)]
    /\ UNCHANGED <<mode, input, pv, overflow_checks, val, parsed, reparsed, plen, u8, text>>

(* UserAttribute::from_slice(val.packet_version(), &writer) *)
FromSliceWritten ==
    /\ val # NoVal
    /\ out.kind = "ok"
    /\ reparsed' = from_slice(packet_version(val), out.bytes)
    /\ UNCHANGED <<mode, input, pv, overflow_checks, val, parsed, out, plen, u8, text>>

PacketLen ==
    /\ val # NoVal
    /\ plen' = [kind |-> "ok", n |-> packet_len(val)]
    /\ UNCHANGED <<mode, input, pv, overflow_checks, val, parsed, out, reparsed, u8, text>>

ToU8 ==
    /\ val # NoVal
    /\ u8' = [kind |-> "ok", n |-> to_u8(val)]
    /\ UNCHANGED <<mode, input, pv, overflow_checks, val, parsed, out, reparsed, plen, text>>

Display ==
    /\ val # NoVal
    /\ text' = [kind |-> "ok", s |-> fmt(val)]
    /\ UNCHANGED <<mode, input, pv, overflow_checks, val, parsed, out, reparsed, plen, u8>>

Next ==
    \/ FromSlice
    \/ ToWriter
    \/ FromSliceWritten
    \/ PacketLen
    \/ ToU8
    \/ Display

Spec == Init /\ [][Next]_vars

---------------------------------------------------------------------------
(* Vocabulary of the properties *)

Called(r) == r.kind # "none"

(* a body behind the length prefix write_packet_len gives its length *)
Frame(b) == write_packet_len(Len(b)) \o b

(* the bodies b of which the slice i is exactly the frame *)
FramedBodies(i) ==
    {b \in {SubSeq(i, k, Len(i)) : k \in 2..6} : Frame(b) = i}

(* the bytes of the writer behind the length prefix of the value v *)
BodyWritten(v, bytes) ==
    SubSeq(bytes, Len(write_packet_len(packet_len(v))) + 1, Len(bytes))

(* the byte parse reads as typ: the one behind the length prefix *)
SubtypeRead(i) == packet_length(i).rest[1]

---------------------------------------------------------------------------
(* C1: round trip value -> bytes -> value.  For every value v, from_slice  *)
(* of v's packet_version and the bytes v.to_writer wrote succeeds and      *)
(* returns a value equal to v.                                             *)
C1_RoundTrip ==
    (mode = "encode" /\ Called(reparsed))
        => (reparsed.kind = "ok" /\ reparsed.value = val)

(* C2: length fidelity.  The length to_writer declares in the prefix,      *)
(* packet_len(), is the number of body bytes it writes behind the prefix:  *)
(* 1 + 2 + header.len() + data.len() for Image, 1 + data.len() for Unknown.*)
C2_LengthFidelity ==
    Called(out) =>
        /\ packet_len(val) = Len(BodyWritten(val, out.bytes))
        /\ packet_len(val) =
              IF val.variant = "Image"
              THEN 1 + 2 + Len(val.header) + Len(val.data)
              ELSE 1 + Len(val.data)

(* C3: underflow rejection.  Decoding an Image body (subtype 1) whose      *)
(* header-length field is 0 or 1 returns an InvalidStructure error: no     *)
(* panic, no wrapped length, no Image value.                               *)
C3_UnderflowRejection ==
    \A b \in FramedBodies(input) :
        (/\ mode = "decode" /\ Called(parsed)
         /\ Len(b) >= 3 /\ b[1] = 1 /\ b[2] + 256 * b[3] < 2)
            => (parsed.kind = "err" /\ parsed.err = "InvalidStructure")

C5_HeaderLenSymmetry ==
    (mode = "encode" /\ val.variant = "Image")
        => /\ Called(out) =>
                LET body == BodyWritten(val, out.bytes) IN
                /\ body[1] = 1
                /\ body[2] + 256 * body[3] = Len(val.header) + 2
           /\ Called(reparsed) =>
                /\ reparsed.kind = "ok"
                /\ reparsed.value.variant = "Image"
                /\ reparsed.value.header = val.header
                /\ reparsed.value.data = val.data

(* C6: Image decode layout.  A body of subtype 1, a little-endian field    *)
(* L >= 2, L - 2 header bytes and any remaining bytes decodes to           *)
(* Image{header: the L - 2 bytes, data: the remaining bytes}; re-encoding  *)
(* gives the identical bytes and packet_len() is the length of the body.   *)
C6_ImageLayout ==
    \A b \in FramedBodies(input) :
        (/\ mode = "decode" /\ Len(b) >= 3 /\ b[1] = 1
         /\ b[2] + 256 * b[3] >= 2 /\ Len(b) >= 1 + b[2] + 256 * b[3])
            => LET L == b[2] + 256 * b[3] IN
               /\ Called(parsed) =>
                     /\ parsed.kind = "ok"
                     /\ parsed.value = Image(pv, SubSeq(b, 4, L + 1),
                                             SubSeq(b, L + 2, Len(b)))
               /\ Called(out) => out.bytes = input
               /\ Called(plen) => plen.n = Len(b)

(* C7: the framing version is carried unchanged.  A value from_slice       *)
(* returns has the packet_version from_slice was given, and to_writer,     *)
(* packet_len, to_u8 and Display leave the value as it was.                *)
C7_VersionCarried ==
    /\ [](parsed.kind = "ok" => packet_version(parsed.value) = pv)
    /\ [](reparsed.kind = "ok" =>
              packet_version(reparsed.value) = packet_version(val))
    /\ [][val # NoVal => val' = val]_vars

(* an Image decoded for an old-format packet went through every operation *)
C7_Witness ==
    /\ pv = "Old"
    /\ parsed.kind = "ok"
    /\ parsed.value.variant = "Image"
    /\ packet_version(val) = "Old"
    /\ Called(out) /\ Called(plen) /\ Called(u8) /\ Called(text)

(* C8: zero-length body.  Decoding an empty slice, or one whose declared   *)
(* length is 0, returns an InvalidStructure error: no panic, no wrapped    *)
(* len - 1, no default value.                                              *)
C8_ZeroLengthBody ==
    (mode = "decode" /\ Called(parsed) /\ (input = <<>> \/ input[1] = 0))
        => (parsed.kind = "err" /\ parsed.err = "InvalidStructure")

(* C9: exact consumption.  Whenever from_slice returns a value the parser  *)
(* has consumed the whole slice it was given.                              *)
C9_ExactConsumption ==
    /\ parsed.kind = "ok" => parsed.rest = <<>>
    /\ reparsed.kind = "ok" => reparsed.rest = <<>>

(* C10: subtype and variant agree.  A value from_slice returns has to_u8() *)
(* equal to the subtype byte read, is an Image exactly when that byte is   *)
(* 1 and so is never Unknown with typ 1; the first body byte to_writer     *)
(* emits for a value is its to_u8().                                       *)
C10_SubtypeAgreement ==
    /\ parsed.kind = "ok" =>
          /\ to_u8(parsed.value) = SubtypeRead(input)
          /\ (parsed.value.variant = "Image") <=> (SubtypeRead(input) = 1)
          /\ ~(parsed.value.variant = "Unknown" /\ parsed.value.typ = 1)
    /\ reparsed.kind = "ok" =>
          /\ to_u8(reparsed.value) = SubtypeRead(out.bytes)
          /\ (reparsed.value.variant = "Image") <=> (SubtypeRead(out.bytes) = 1)
    /\ (Called(out) /\ Called(u8)) => BodyWritten(val, out.bytes)[1] = u8.n

(* an Image was decoded from a body of subtype 1, asked for its to_u8 and  *)
(* written                                                                 *)
C10_Witness ==
    /\ parsed.kind = "ok"
    /\ parsed.value.variant = "Image"
    /\ SubtypeRead(input) = 1
    /\ Called(u8) /\ u8.n = 1
    /\ Called(out)

====
